---- MODULE Spec2Model ----
(***************************************************************************)
(* A model of the YouTube / TikTok trends pipeline:                        *)
(*   scripts/01_ingest_data.py   raw CSV files -> tables of the raw Store  *)
(*   scripts/02_process_data.py  raw tables -> cleaned, engineered frames  *)
(*   scripts/03_analyze_data.py  cleaned tables -> analysis outputs        *)
(* Strings that the code inspects (file, table and column names) are       *)
(* tuples of one-character strings, so that endswith, splitext, lower and  *)
(* the substring test `x in name` are computed, not looked up.             *)
(***************************************************************************)
EXTENDS Integers, Sequences, FiniteSets, TLC

VARIABLES
    \* ---- 01_ingest_data.py
    dir,              \* os.listdir(data_dir): the files, in listing order
    store,            \* the raw database: table name -> rows
    csv_files,        \* the list built at line 53
    i,                \* position of the for loop of line 54 (1-based)
    ipc,              \* "idle" | "start" | "loop" | "closed" | "raised"
    run,              \* which run of the script this is (1 or 2)
    storeAfterFirst,  \* the Store as the first run left it
    log,              \* the "Loaded data into table" lines of this run
    \* ---- 02_process_data.py
    raw_tables,           \* the raw database: table -> rows (SELECT * FROM table)
    dataframes,           \* line 69: table -> frame read from the database
    table_list,           \* line 59, the iteration order of the dicts
    cleaned_dataframes,   \* line 91
    engineered_dataframes,\* line 112
    processed,            \* data/processed/: file name -> frame written
    k,                    \* position of the running loop (1-based)
    ppc,                  \* "idle" | "read" | "clean" | "engineer" | "save" |
                          \* "done" | "raised"
    twice,                \* clean applied to the Cleaner's own output, per table
    pandas_zero,          \* what this pandas build's to_datetime makes of 0
    fe_input,             \* history: each frame as feature_engineering received it
    \* ---- 03_analyze_data.py
    adf,              \* line 69-73: the dataframes dict of the analysis
    loaded,           \* history: adf as it was loaded
    anames,           \* line 64, the iteration order of adf
    outputs,          \* data/analyzed/: output name -> what was written
    j,                \* position of the running loop (1-based)
    apc               \* "idle" | "features" | "timeseries" | "category" |
                      \* "compare" | "summary" | "done" | "raised"

ivars == <<dir, store, csv_files, i, ipc, run, storeAfterFirst, log>>
pvars == <<raw_tables, dataframes, table_list, cleaned_dataframes, engineered_dataframes,
           processed, k, ppc, twice, pandas_zero, fe_input>>
avars == <<adf, loaded, anames, outputs, j, apc>>
vars == <<ivars, pvars, avars>>

(***************************************************************************)
(* Bounds of the model.                                                    *)
(***************************************************************************)
\* Files in the source directory.
MaxFiles == 2
\* Rows of a dataset drawn as input.
MaxRows == 2

(***************************************************************************)
(* Strings.                                                                *)
(***************************************************************************)
Upper == <<"A","B","C","D","E","F","G","H","I","J","K","L","M",
           "N","O","P","Q","R","S","T","U","V","W","X","Y","Z">>
LowerOf == <<"a","b","c","d","e","f","g","h","i","j","k","l","m",
             "n","o","p","q","r","s","t","u","v","w","x","y","z">>

\* str.lower(), one character
LowerChar(c) ==
    IF \E n \in DOMAIN Upper : Upper[n] = c
    THEN LowerOf[CHOOSE n \in DOMAIN Upper : Upper[n] = c]
    ELSE c

\* str.lower()
Lower(s) == [n \in 1..Len(s) |-> LowerChar(s[n])]

\* str.endswith(suffix)
EndsWith(s, suffix) ==
    /\ Len(s) >= Len(suffix)
    /\ SubSeq(s, Len(s) - Len(suffix) + 1, Len(s)) = suffix

\* `sub in s` for two str
Contains(s, sub) ==
    \E n \in 1..(Len(s) - Len(sub) + 1) : SubSeq(s, n, n + Len(sub) - 1) = sub

\* os.path.splitext(p)[0] for a file name without a directory part: the
\* extension starts at the last dot, unless only dots come before it.
SplitextRoot(p) ==
    LET dots == {n \in 1..Len(p) : p[n] = "."}
    IN  IF dots = {} THEN p
        ELSE LET dotIndex == CHOOSE n \in dots : \A m \in dots : m <= n
             IN  IF \E m \in 1..(dotIndex - 1) : p[m] # "."
                 THEN SubSeq(p, 1, dotIndex - 1)
                 ELSE p

DotCsv == <<".","c","s","v">>

(***************************************************************************)
(* 01_ingest_data.py                                                       *)
(***************************************************************************)
File_Youtube_Trends == <<"Y","o","u","t","u","b","e","_","T","r","e","n","d","s",".","c","s","v">>
File_yt == <<"y","t",".","c","s","v">>
File_YT == <<"Y","T",".","c","s","v">>
File_tk == <<"t","k",".","c","s","v">>
File_notes == <<"n","o","t","e","s",".","t","x","t">>
Name_youtube_trends == <<"y","o","u","t","u","b","e","_","t","r","e","n","d","s">>
Name_yt == <<"y","t">>
Name_old == <<"o","l","d">>

FileNames == {File_Youtube_Trends, File_yt, File_YT, File_tk, File_notes}

\* What pd.read_csv makes of a file: its rows, or an exception (ok = FALSE).
\* Rows are abstract here; the Store only copies them.
Contents == {<<>>, <<1>>, <<1, 2>>}
Files ==
    {f \in [name : FileNames, ok : BOOLEAN, rows : Contents] :
        ~f.ok => f.rows = <<>>}

Injective(s) == \A m, n \in DOMAIN s : m # n => s[m].name # s[n].name

Listings ==
    UNION {{s \in [1..n -> Files] : Injective(s)} : n \in 0..MaxFiles}

EmptyStore == [t \in {} |-> <<>>]
InitialStores ==
    {EmptyStore, [t \in {Name_yt} |-> <<7>>], [t \in {Name_old} |-> <<7>>]}

\* line 60: table_name = os.path.splitext(file)[0].lower()
TableName(file) == Lower(SplitextRoot(file))

\* DataFrame.to_sql(..., if_exists='append'): rows are added to the table
ToSqlAppend(db, name, rows) ==
    [t \in DOMAIN db \cup {name} |->
        IF t = name
        THEN (IF name \in DOMAIN db THEN db[name] \o rows ELSE rows)
        ELSE db[t]]

\* line 61: DataFrame.to_sql(name, if_exists='replace', index=False)
ToSql(db, name, rows) ==
    [t \in DOMAIN db \cup {name} |-> IF t = name THEN rows ELSE db[t]]

\* line 53: csv_files = [f for f in os.listdir(data_dir) if f.endswith('.csv')]
CsvFilesOf(listing) == SelectSeq(listing, LAMBDA f : EndsWith(f.name, DotCsv))

IdleProcess ==
    /\ raw_tables = <<>>
    /\ dataframes = <<>> /\ table_list = <<>> /\ cleaned_dataframes = <<>>
    /\ engineered_dataframes = <<>> /\ processed = <<>> /\ k = 0
    /\ ppc = "idle" /\ twice = <<>> /\ fe_input = <<>>
    /\ pandas_zero = [k |-> "nat", a |-> 0, b |-> 0]

IdleAnalysis ==
    /\ adf = <<>> /\ loaded = <<>> /\ anames = <<>> /\ outputs = <<>>
    /\ j = 0 /\ apc = "idle"

IdleIngest ==
    /\ dir = <<>> /\ store = EmptyStore /\ csv_files = <<>> /\ i = 0
    /\ ipc = "idle" /\ run = 0 /\ storeAfterFirst = EmptyStore /\ log = <<>>

InitIngest ==
    /\ dir \in Listings
    /\ store \in InitialStores
    /\ csv_files = <<>>
    /\ i = 0
    /\ ipc = "start"
    /\ run = 1
    /\ storeAfterFirst = EmptyStore
    /\ log = <<>>
    /\ IdleProcess
    /\ IdleAnalysis

\* lines 52-53
ListDir ==
    /\ ipc = "start"
    /\ csv_files' = CsvFilesOf(dir)
    /\ i' = 1
    /\ ipc' = "loop"
    /\ log' = <<>>
    /\ UNCHANGED <<dir, store, run, storeAfterFirst, pvars, avars>>

\* line 56 raising: nothing catches the exception, the script ends there
\* (lines 57-66 do not run).
ReadCsvRaises ==
    /\ ipc = "loop"
    /\ i <= Len(csv_files)
    /\ ~csv_files[i].ok
    /\ ipc' = "raised"
    /\ UNCHANGED <<dir, store, csv_files, i, run, storeAfterFirst, log, pvars, avars>>

\* lines 54-63, one iteration
IngestFile ==
    /\ ipc = "loop"
    /\ i <= Len(csv_files)
    /\ csv_files[i].ok
    /\ LET file == csv_files[i].name
           table_name == TableName(file)
       IN  /\ store' = ToSql(store, table_name, csv_files[i].rows)
           /\ log' = Append(log, [file |-> file, table |-> table_name])
    /\ i' = i + 1
    /\ UNCHANGED <<dir, csv_files, ipc, run, storeAfterFirst, pvars, avars>>

\* lines 65-66
CloseConnection ==
    /\ ipc = "loop"
    /\ i > Len(csv_files)
    /\ ipc' = "closed"
    /\ UNCHANGED <<dir, store, csv_files, i, run, storeAfterFirst, log, pvars, avars>>

\* The script is run again over the unchanged directory.
RunAgain ==
    /\ ipc \in {"closed", "raised"}
    /\ run = 1
    /\ run' = 2
    /\ storeAfterFirst' = store
    /\ ipc' = "start"
    /\ UNCHANGED <<dir, store, csv_files, i, log, pvars, avars>>

NextIngest == ListDir \/ ReadCsvRaises \/ IngestFile \/ CloseConnection \/ RunAgain

SpecIngest == InitIngest /\ [][NextIngest]_vars

IngestEnded == ipc \in {"closed", "raised"}

\* C1: running the ingestion a second time over the unchanged directory
\* leaves the Store exactly as the first run left it.
C1_IngestIdempotent ==
    (run = 2 /\ IngestEnded) => store = storeAfterFirst

\* A second run that replaced a table the Store already held, with rows.
C1_Witness ==
    /\ run = 2 /\ ipc = "closed"
    /\ Len(log) = 2
    /\ \E t \in DOMAIN store : Len(store[t]) = 2

\* C8: when reading one file fails, the other CSV files are still read and
\* written, and the run reaches the end of the file list.
C8_FailureSkipsOnlyThatFile ==
    IngestEnded =>
        \A n \in DOMAIN csv_files :
           csv_files[n].ok =>
              /\ n < i
              /\ \E m \in DOMAIN log : log[m].file = csv_files[n].name

\* The file name with its four-character extension removed, lowercased.
StemLowercased(file) == Lower(SubSeq(file, 1, Len(file) - Len(DotCsv)))

\* C9: after ingestion every file with the CSV extension has a table named
\* by its lowercased stem, and no table comes from any other file.
C9_EveryCsvFileBecomesTable ==
    (run = 1 /\ IngestEnded) =>
        /\ \A n \in DOMAIN dir :
              (EndsWith(dir[n].name, DotCsv) /\ dir[n].ok) =>
                  /\ StemLowercased(dir[n].name) \in DOMAIN store
                  /\ \E m \in DOMAIN log :
                        /\ log[m].file = dir[n].name
                        /\ log[m].table = StemLowercased(dir[n].name)
        /\ \A m \in DOMAIN log : EndsWith(log[m].file, DotCsv)

(***************************************************************************)
(* Cell values of a DataFrame.  Every value is a record [k, a, b]:         *)
(*   "nan"   NaN / None, the missing marker                                *)
(*   "num"   the number a / b (b >= 1, lowest terms): int64 and float64    *)
(*   "inf"   the float inf                                                 *)
(*   "str"   a text that is not a date; a identifies the text              *)
(*   "dstr"  a text that parses as day a, time of day b                    *)
(*   "ts"    a Timestamp: day a (days since 1970-01-01), time of day b     *)
(*   "nat"   NaT, the no-value marker of the datetime type                 *)
(***************************************************************************)
NaN == [k |-> "nan", a |-> 0, b |-> 0]
NaT == [k |-> "nat", a |-> 0, b |-> 0]
Inf == [k |-> "inf", a |-> 0, b |-> 0]
Str(n) == [k |-> "str", a |-> n, b |-> 0]
DStr(day, time) == [k |-> "dstr", a |-> day, b |-> time]
Ts(day, time) == [k |-> "ts", a |-> day, b |-> time]

RECURSIVE Gcd(_, _)
Gcd(m, n) == IF n = 0 THEN m ELSE Gcd(n, m % n)

Abs(n) == IF n < 0 THEN -n ELSE n

\* The number n / d, d > 0
Frac(n, d) ==
    LET g == Gcd(Abs(n), d)
    IN  [k |-> "num", a |-> n \div g, b |-> d \div g]

Num(n) == [k |-> "num", a |-> n, b |-> 1]

\* pandas.isna
IsNA(v) == v.k \in {"nan", "nat"}

\* float64 `x + y`
AddV(x, y) ==
    IF x.k = "nan" \/ y.k = "nan" THEN NaN
    ELSE IF x.k = "inf" \/ y.k = "inf" THEN Inf
    ELSE Frac(x.a * y.b + y.a * x.b, x.b * y.b)

\* float64 `x / y` on non-negative numbers: n / 0 is inf, 0 / 0 is NaN
DivV(x, y) ==
    IF x.k = "nan" \/ y.k = "nan" THEN NaN
    ELSE IF y.k = "inf" THEN (IF x.k = "inf" THEN NaN ELSE Num(0))
    ELSE IF x.k = "inf" THEN Inf
    ELSE IF y.a = 0 THEN (IF x.a = 0 THEN NaN ELSE Inf)
    ELSE Frac(x.a * y.b, x.b * y.a)

(***************************************************************************)
(* DataFrames: the column names in order, the dtype of each column, the    *)
(* row index, and the rows (each a sequence aligned with cols).            *)
(***************************************************************************)
MkFrame(cols, dtypes, index, data) ==
    [cols |-> cols, dtypes |-> dtypes, index |-> index, data |-> data]

NRows(df) == Len(df.data)

\* `c in df.columns`
Has(df, c) == \E n \in DOMAIN df.cols : df.cols[n] = c

\* position of the (first) column named c
ColIndex(df, c) ==
    CHOOSE n \in DOMAIN df.cols :
        df.cols[n] = c /\ \A m \in DOMAIN df.cols : df.cols[m] = c => n <= m

\* df[c] as a sequence of values (c is a column of df)
Column(df, c) == [r \in 1..NRows(df) |-> df.data[r][ColIndex(df, c)]]

\* df[c] = vals: an existing column c is overwritten in place, a new one is
\* appended as the last column
SetColumn(df, c, dtype, vals) ==
    IF Has(df, c)
    THEN LET n == ColIndex(df, c)
         IN  [df EXCEPT !.dtypes[n] = dtype,
                        !.data = [r \in 1..NRows(df) |->
                                     [df.data[r] EXCEPT ![n] = vals[r]]]]
    ELSE [df EXCEPT !.cols = Append(df.cols, c),
                    !.dtypes = Append(df.dtypes, dtype),
                    !.data = [r \in 1..NRows(df) |-> Append(df.data[r], vals[r])]]

\* the rows of df at the positions of `keep` (ascending), index labels kept
TakeRows(df, keep) ==
    LET Pos[n \in 0..NRows(df)] ==
            IF n = 0 THEN <<>>
            ELSE IF n \in keep THEN Append(Pos[n - 1], n) ELSE Pos[n - 1]
        pos == Pos[NRows(df)]
    IN  [df EXCEPT !.index = [m \in 1..Len(pos) |-> df.index[pos[m]]],
                   !.data = [m \in 1..Len(pos) |-> df.data[pos[m]]]]

(***************************************************************************)
(* 02_process_data.py: the Cleaner                                         *)
(***************************************************************************)
\* line 75: df.dropna(how='all')
DropNaAll(df) ==
    TakeRows(df, {r \in 1..NRows(df) :
                    \E n \in DOMAIN df.cols : ~IsNA(df.data[r][n])})

\* line 76: df.fillna(0).  A datetime64 column that holds NaT cannot hold
\* the integer 0 and becomes an object column.
FillNa0(df) ==
    [df EXCEPT
        !.dtypes = [n \in DOMAIN df.cols |->
                      IF df.dtypes[n] = "datetime"
                         /\ \E r \in 1..NRows(df) : IsNA(df.data[r][n])
                      THEN "object" ELSE df.dtypes[n]],
        !.data = [r \in 1..NRows(df) |->
                     [n \in DOMAIN df.cols |->
                         IF IsNA(df.data[r][n]) THEN Num(0) ELSE df.data[r][n]]]]

\* line 79: df.drop_duplicates(): the first occurrence of each row is kept
DropDuplicates(df) ==
    TakeRows(df, {r \in 1..NRows(df) :
                    \A q \in 1..(r - 1) : df.data[q] # df.data[r]})

\* line 80: df.reset_index(drop=True)
ResetIndex(df) == [df EXCEPT !.index = [r \in 1..NRows(df) |-> r - 1]]

\* lines 73-81
clean_dataframe(df) == ResetIndex(DropDuplicates(FillNa0(DropNaAll(df))))

\* What pd.to_datetime(errors='coerce') makes of the integer 0 inside an
\* object column depends on the pandas build: the epoch, or NaT.
ZeroDateOutcomes == {NaT, Ts(0, 0)}

\* pd.to_datetime(value, errors='coerce') for one value of an object column
ToDatetimeObject(v, zero) ==
    CASE v.k = "dstr" -> Ts(v.a, v.b)
      [] v.k = "ts" -> v
      [] v.k = "num" -> (IF v.a = 0 THEN zero ELSE Ts(0, v.a))
      [] OTHER -> NaT

DateWord == <<"d","a","t","e">>

\* line 85-86: the object columns whose name holds 'date'
IsObjectDateColumn(df, n) ==
    df.dtypes[n] = "object" /\ Contains(Lower(df.cols[n]), DateWord)

\* lines 84-88
correct_data_types(df, zero) ==
    [df EXCEPT
        !.dtypes = [n \in DOMAIN df.cols |->
                      IF IsObjectDateColumn(df, n) THEN "datetime" ELSE df.dtypes[n]],
        !.data = [r \in 1..NRows(df) |->
                     [n \in DOMAIN df.cols |->
                         IF IsObjectDateColumn(df, n)
                         THEN ToDatetimeObject(df.data[r][n], zero)
                         ELSE df.data[r][n]]]]

\* lines 93-94: the Cleaner as the cleaning loop applies it
Clean(df, zero) == correct_data_types(clean_dataframe(df), zero)

(***************************************************************************)
(* Names the code tests for.                                               *)
(***************************************************************************)
Youtube == <<"y","o","u","t","u","b","e">>
Tiktok == <<"t","i","k","t","o","k">>
Col_views == <<"v","i","e","w","s">>
Col_likes == <<"l","i","k","e","s">>
Col_comments == <<"c","o","m","m","e","n","t","s">>
Col_subscribers == <<"s","u","b","s","c","r","i","b","e","r","s">>
Col_followers == <<"f","o","l","l","o","w","e","r","s">>
Col_shares == <<"s","h","a","r","e","s">>
Col_category == <<"c","a","t","e","g","o","r","y">>
Col_creator == <<"c","r","e","a","t","o","r">>
Col_title == <<"t","i","t","l","e">>
Col_views_per_subscriber == <<"v","i","e","w","s","_","p","e","r","_","s","u","b","s","c","r","i","b","e","r">>
Col_like_rate == <<"l","i","k","e","_","r","a","t","e">>
Col_likes_per_follower == <<"l","i","k","e","s","_","p","e","r","_","f","o","l","l","o","w","e","r">>
Col_shares_per_follower == <<"s","h","a","r","e","s","_","p","e","r","_","f","o","l","l","o","w","e","r">>
Col_engagement_rate == <<"e","n","g","a","g","e","m","e","n","t","_","r","a","t","e">>
Col_published_date == <<"p","u","b","l","i","s","h","e","d","_","d","a","t","e">>
Col_Upload_Date == <<"U","p","l","o","a","d","_","D","a","t","e">>

Tab_youtube_data == <<"y","o","u","t","u","b","e","_","d","a","t","a">>
Tab_tiktok_data == <<"t","i","k","t","o","k","_","d","a","t","a">>
Tab_youtube_tiktok == <<"y","o","u","t","u","b","e","_","t","i","k","t","o","k">>
Tab_sales == <<"s","a","l","e","s">>

(***************************************************************************)
(* 02_process_data.py: the Feature Engineer                                *)
(***************************************************************************)
\* `a in df.columns or b in df.columns`
HasAny(df, cs) == \E c \in cs : Has(df, c)

\* `a in df.columns and b in df.columns`
HasAll(df, cs) == \A c \in cs : Has(df, c)

\* Series.replace(old, new) for one value, left as it is
ReplaceNothing(v, old, new) == v

\* Series.replace(old, new) for one value
Replace(v, old, new) == IF v = Num(old) THEN Num(new) ELSE v

\* df[num] / df[den].replace(0, 1)
SafeRatio(df, num, den) ==
    [r \in 1..NRows(df) |->
        DivV(Column(df, num)[r], Replace(Column(df, den)[r], 0, 1))]

\* One statement `if <guard>: df[target] = df[num] / df[den].replace(0, 1)`
\* on the outcome so far.  Reading a column the frame lacks raises KeyError.
AddRatio(res, guard, target, num, den) ==
    IF res.raised \/ ~HasAll(res.df, guard) THEN res
    ELSE IF Has(res.df, num) /\ Has(res.df, den)
         THEN [raised |-> FALSE,
               df |-> SetColumn(res.df, target, "number", SafeRatio(res.df, num, den))]
         ELSE [raised |-> TRUE, df |-> res.df]

YoutubeFeatures(res) ==
    AddRatio(AddRatio(res, {Col_views, Col_subscribers},
                      Col_views_per_subscriber, Col_views, Col_subscribers),
             {Col_likes, Col_views}, Col_like_rate, Col_likes, Col_views)

TiktokFeatures(res) ==
    AddRatio(AddRatio(res, {Col_likes, Col_followers},
                      Col_likes_per_follower, Col_likes, Col_followers),
             {Col_shares, Col_followers}, Col_shares_per_follower,
             Col_shares, Col_followers)

\* feature_engineering with `if 'tiktok' in table_name` in place of `elif`
feature_engineering_two_ifs(df, table_name) ==
    LET r0 == [raised |-> FALSE, df |-> df]
        r1 == IF Contains(table_name, Youtube) THEN YoutubeFeatures(r0) ELSE r0
    IN  IF Contains(table_name, Tiktok) THEN TiktokFeatures(r1) ELSE r1

\* lines 100-111.  The frame is changed in place and returned: the result
\* is the object that was passed in.
feature_engineering(df, table_name) ==
    LET r0 == [raised |-> FALSE, df |-> df]
    IN  IF Contains(table_name, Youtube) THEN YoutubeFeatures(r0)
        ELSE IF Contains(table_name, Tiktok) THEN TiktokFeatures(r0)
        ELSE r0

(***************************************************************************)
(* Inputs of 02_process_data.py: the tables of the raw database, as        *)
(* 01_ingest_data.py wrote them from CSV files (object and number columns; *)
(* no table without columns).  A schema lists, per column, its name, its   *)
(* dtype and the values drawn for it.                                      *)
(***************************************************************************)
ColSpec(c, t, d) == [c |-> c, t |-> t, d |-> d]

RowsOf(schema) ==
    {row \in [1..Len(schema) -> UNION {schema[n].d : n \in 1..Len(schema)}] :
        \A n \in 1..Len(schema) : row[n] \in schema[n].d}

FramesOf(schema) ==
    UNION {{MkFrame([n \in 1..Len(schema) |-> schema[n].c],
                    [n \in 1..Len(schema) |-> schema[n].t],
                    [r \in 1..m |-> r - 1],
                    data) : data \in [1..m -> RowsOf(schema)]} : m \in 0..MaxRows}

NumViews == {Num(0), Num(100), Num(200)}
NumSubscribers == {NaN, Num(0), Num(50)}
NumLikes == {NaN, Num(10)}
NumFollowers == {Num(0), Num(4)}
DateTexts == {DStr(1, 0), Str(1), Str(2)}

RawSchemas ==
    { <<ColSpec(Col_views, "number", NumViews),
        ColSpec(Col_subscribers, "number", NumSubscribers)>>,
      <<ColSpec(Col_likes, "number", NumLikes),
        ColSpec(Col_views, "number", NumViews)>>,
      <<ColSpec(Col_likes, "number", NumLikes),
        ColSpec(Col_followers, "number", NumFollowers)>>,
      <<ColSpec(Col_shares, "number", {Num(2)}),
        ColSpec(Col_followers, "number", NumFollowers)>>,
      <<ColSpec(Col_views, "number", {Num(100)}),
        ColSpec(Col_subscribers, "number", {Num(0), Num(50)}),
        ColSpec(Col_views_per_subscriber, "number", {Num(7)})>>,
      <<ColSpec(Col_likes, "number", {Num(10)}),
        ColSpec(Col_followers, "number", NumFollowers),
        ColSpec(Col_likes_per_follower, "number", {Num(7)})>>,
      <<ColSpec(Col_title, "object", {NaN, Str(3)}),
        ColSpec(Col_published_date, "object", DateTexts)>>,
      <<ColSpec(Col_published_date, "object", DateTexts \cup {NaN})>>,
      <<ColSpec(Col_views, "number", {Num(100)}),
        ColSpec(Col_Upload_Date, "object", {NaN, DStr(1, 0), DStr(1, 1)})>>,
      <<ColSpec(Col_views, "number", {Num(100)}),
        ColSpec(Col_Upload_Date, "number", {NaN, Num(5)})>> }

RawFrames == UNION {FramesOf(schema) : schema \in RawSchemas}

\* SHOW TABLES of the raw database (line 58-59)
RawTableLists ==
    {<<Tab_youtube_data>>, <<Tab_tiktok_data>>, <<Tab_youtube_tiktok>>, <<Tab_sales>>}

Range(s) == {s[n] : n \in DOMAIN s}

NoFrames == [t \in {} |-> <<>>]

\* dict assignment d[key] = value
Put(d, key, value) ==
    [t \in DOMAIN d \cup {key} |-> IF t = key THEN value ELSE d[t]]

\* Two tables at once are drawn from the smaller schemas.
SmallRawSchemas ==
    { <<ColSpec(Col_shares, "number", {Num(2)}),
        ColSpec(Col_followers, "number", NumFollowers)>>,
      <<ColSpec(Col_views, "number", {Num(100)}),
        ColSpec(Col_subscribers, "number", {Num(0), Num(50)})>> }

SmallRawFrames == UNION {FramesOf(schema) : schema \in SmallRawSchemas}

CleanedCsv == <<"_","c","l","e","a","n","e","d",".","c","s","v">>

\* lines 52-60: the script is connected and has the list of tables
InitProcess ==
    /\ \/ /\ table_list \in RawTableLists
          /\ raw_tables \in [Range(table_list) -> RawFrames]
       \/ /\ table_list = <<Tab_tiktok_data, Tab_youtube_data>>
          /\ raw_tables \in [Range(table_list) -> SmallRawFrames]
    /\ dataframes = NoFrames
    /\ pandas_zero \in ZeroDateOutcomes
    /\ cleaned_dataframes = NoFrames
    /\ engineered_dataframes = NoFrames
    /\ processed = NoFrames
    /\ twice = NoFrames
    /\ fe_input = NoFrames
    /\ k = 1
    /\ ppc = "read"
    /\ IdleIngest
    /\ IdleAnalysis

\* lines 64-69: read_table_to_df for one table of the dict comprehension
ReadStep ==
    /\ ppc = "read"
    /\ k <= Len(table_list)
    /\ LET table == table_list[k]
       IN  dataframes' = Put(dataframes, table, raw_tables[table])
    /\ k' = k + 1
    /\ UNCHANGED <<raw_tables, table_list, cleaned_dataframes, engineered_dataframes,
                   processed, ppc, twice, pandas_zero, fe_input, ivars, avars>>

\* lines 69-91: every table has been read
EndReading ==
    /\ ppc = "read"
    /\ k > Len(table_list)
    /\ ppc' = "clean"
    /\ k' = 1
    /\ UNCHANGED <<raw_tables, dataframes, table_list, cleaned_dataframes,
                   engineered_dataframes, processed, twice, pandas_zero, fe_input,
                   ivars, avars>>

\* lines 92-96, one iteration of the cleaning loop
CleanStep ==
    /\ ppc = "clean"
    /\ k <= Len(table_list)
    /\ LET table == table_list[k]
       IN  cleaned_dataframes' =
               Put(cleaned_dataframes, table, Clean(dataframes[table], pandas_zero))
    /\ k' = k + 1
    /\ UNCHANGED <<raw_tables, dataframes, table_list, engineered_dataframes, processed, ppc,
                   twice, pandas_zero, fe_input, ivars, avars>>

\* The cleaning loop left after its first iteration (a `break` at the end
\* of the loop body).
EndCleaningEarly ==
    /\ ppc = "clean"
    /\ k > 1
    /\ ppc' = "engineer"
    /\ k' = 1
    /\ UNCHANGED <<raw_tables, dataframes, table_list, cleaned_dataframes,
                   engineered_dataframes, processed, twice, pandas_zero, fe_input,
                   ivars, avars>>

\* lines 97-112: the cleaning loop is over
EndCleaning ==
    /\ ppc = "clean"
    /\ k > Len(table_list)
    /\ ppc' = "engineer"
    /\ k' = 1
    /\ UNCHANGED <<raw_tables, dataframes, table_list, cleaned_dataframes, engineered_dataframes,
                   processed, twice, pandas_zero, fe_input, ivars, avars>>

\* One iteration of the engineering loop with feature_engineering given a
\* copy, feature_engineering(df.copy(), table): the cleaned frame stays.
EngineerStepOnCopy ==
    /\ ppc = "engineer"
    /\ k <= Len(table_list)
    /\ LET table == table_list[k]
           res == feature_engineering(cleaned_dataframes[table], table)
       IN  /\ fe_input' = Put(fe_input, table, cleaned_dataframes[table])
           /\ engineered_dataframes' =
                  IF res.raised THEN engineered_dataframes
                  ELSE Put(engineered_dataframes, table, res.df)
           /\ ppc' = IF res.raised THEN "raised" ELSE ppc
           /\ k' = IF res.raised THEN k ELSE k + 1
    /\ UNCHANGED <<raw_tables, dataframes, table_list, cleaned_dataframes, processed,
                   twice, pandas_zero, ivars, avars>>

\* lines 115-118, one iteration of the engineering loop.  feature_engineering
\* works on the very frame cleaned_dataframes holds, so its changes show
\* there too; an exception ends the script.
EngineerStep ==
    /\ ppc = "engineer"
    /\ k <= Len(table_list)
    /\ LET table == table_list[k]
           res == feature_engineering(cleaned_dataframes[table], table)
       IN  /\ fe_input' = Put(fe_input, table, cleaned_dataframes[table])
           /\ cleaned_dataframes' = Put(cleaned_dataframes, table, res.df)
           /\ engineered_dataframes' =
                  IF res.raised THEN engineered_dataframes
                  ELSE Put(engineered_dataframes, table, res.df)
           /\ ppc' = IF res.raised THEN "raised" ELSE ppc
           /\ k' = IF res.raised THEN k ELSE k + 1
    /\ UNCHANGED <<raw_tables, dataframes, table_list, processed, twice, pandas_zero, ivars, avars>>

\* lines 119-123: the engineering loop is over
EndEngineering ==
    /\ ppc = "engineer"
    /\ k > Len(table_list)
    /\ ppc' = "save"
    /\ k' = 1
    /\ UNCHANGED <<raw_tables, dataframes, table_list, cleaned_dataframes, engineered_dataframes,
                   processed, twice, pandas_zero, fe_input, ivars, avars>>

\* lines 124-127, one iteration of the saving loop
SaveStep ==
    /\ ppc = "save"
    /\ k <= Len(table_list)
    /\ LET table == table_list[k]
       IN  processed' = Put(processed, table \o CleanedCsv, engineered_dataframes[table])
    /\ k' = k + 1
    /\ UNCHANGED <<raw_tables, dataframes, table_list, cleaned_dataframes, engineered_dataframes,
                   ppc, twice, pandas_zero, fe_input, ivars, avars>>

\* lines 128-132
EndSaving ==
    /\ ppc = "save"
    /\ k > Len(table_list)
    /\ ppc' = "done"
    /\ UNCHANGED <<raw_tables, dataframes, table_list, cleaned_dataframes, engineered_dataframes,
                   processed, k, twice, pandas_zero, fe_input, ivars, avars>>

NextProcess ==
    \/ ReadStep \/ EndReading \/ CleanStep \/ EndCleaning
    \/ EngineerStep \/ EndEngineering \/ SaveStep \/ EndSaving

\* The Cleaner applied to its own output (lines 93-94 on a cleaned frame).
CleanAgain ==
    /\ ppc = "engineer"
    /\ \E table \in DOMAIN cleaned_dataframes \ DOMAIN twice :
          twice' = Put(twice, table, Clean(cleaned_dataframes[table], pandas_zero))
    /\ UNCHANGED <<raw_tables, dataframes, table_list, cleaned_dataframes, engineered_dataframes,
                   processed, k, ppc, pandas_zero, fe_input, ivars, avars>>

NextClean == ReadStep \/ EndReading \/ CleanStep \/ EndCleaning \/ CleanAgain

\* The Cleaner alone, and the Cleaner applied twice.
SpecClean == InitProcess /\ [][NextClean]_vars

\* C2: the Cleaner is idempotent: cleaning a cleaned dataset changes nothing.
C2_CleanIdempotent ==
    \A table \in DOMAIN twice : twice[table] = cleaned_dataframes[table]

\* The cleaning loop has ended and feature engineering has not begun.
CleaningLoopDone == ppc = "engineer" /\ k = 1

\* A raw cell as the Cleaner leaves it outside the coerced date columns.
Filled(v) == IF IsNA(v) THEN Num(0) ELSE v

IsDateNamed(c) == Contains(Lower(c), DateWord)

\* Rows r of `raw` (with missing cells filled) and q of `cleaned` agree on
\* every column that is not date-named.
SameRow(raw, r, cleaned, q) ==
    \A n \in DOMAIN raw.cols :
        ~IsDateNamed(raw.cols[n]) => cleaned.data[q][n] = Filled(raw.data[r][n])

FilledRow(raw, r) == [n \in DOMAIN raw.cols |-> Filled(raw.data[r][n])]

\* C3: after the cleaning loop each cleaned dataset has no fully-empty row,
\* no missing marker outside date columns, no two equal rows, the first
\* occurrences of the surviving rows in their original order, and the
\* index 0..n-1.
C3_CleanedInvariant ==
    CleaningLoopDone =>
        \A table \in DOMAIN cleaned_dataframes :
            LET c == cleaned_dataframes[table]
                raw == dataframes[table]
            IN  /\ \A r \in 1..NRows(c) : \E n \in DOMAIN c.cols : ~IsNA(c.data[r][n])
                /\ \A r \in 1..NRows(c) : \A n \in DOMAIN c.cols :
                      ~IsDateNamed(c.cols[n]) => ~IsNA(c.data[r][n])
                /\ \A r, q \in 1..NRows(c) : r # q => c.data[r] # c.data[q]
                /\ \E f \in [1..NRows(c) -> 1..NRows(raw)] :
                      /\ \A r, q \in 1..NRows(c) : r < q => f[r] < f[q]
                      /\ \A r \in 1..NRows(c) :
                            /\ SameRow(raw, f[r], c, r)
                            /\ \A q \in 1..(f[r] - 1) :
                                  FilledRow(raw, q) # FilledRow(raw, f[r])
                /\ c.index = [r \in 1..NRows(c) |-> r - 1]

(***************************************************************************)
(* 03_analyze_data.py                                                      *)
(***************************************************************************)
Suffix_descriptive_stats == <<"_","d","e","s","c","r","i","p","t","i","v","e","_","s","t","a","t","s">>
Suffix_correlation_matrix == <<"_","c","o","r","r","e","l","a","t","i","o","n","_","m","a","t","r","i","x">>
Suffix_with_features == <<"_","w","i","t","h","_","f","e","a","t","u","r","e","s">>
Suffix_time_series_trend == <<"_","t","i","m","e","_","s","e","r","i","e","s","_","t","r","e","n","d">>
Suffix_category_aggregation == <<"_","c","a","t","e","g","o","r","y","_","a","g","g","r","e","g","a","t","i","o","n">>
Suffix_summary == <<"_","s","u","m","m","a","r","y">>
PlatformComparison == <<"p","l","a","t","f","o","r","m","_","c","o","m","p","a","r","a","t","i","v","e","_","a","n","a","l","y","s","i","s">>
Col_average_views == <<"a","v","e","r","a","g","e","_","v","i","e","w","s">>
Col_average_likes == <<"a","v","e","r","a","g","e","_","l","i","k","e","s">>
Col_Platform == <<"P","l","a","t","f","o","r","m">>
Col_Average_Engagement_Rate == <<"A","v","e","r","a","g","e","_","E","n","g","a","g","e","m","e","n","t","_","R","a","t","e">>

\* a datetime.date, as Series.dt.date gives
DateOf(day) == [k |-> "date", a |-> day, b |-> 0]
\* the text 'N/A' of a summary
NotApplicable == [k |-> "text", a |-> 0, b |-> 0]
\* the texts 'YouTube' and 'TikTok' of the comparison table
PlatformName(n) == [k |-> "text", a |-> n, b |-> 0]

\* the sum of a sequence of float64 values
RECURSIVE SumV(_)
SumV(vals) == IF vals = <<>> THEN Num(0) ELSE AddV(Head(vals), SumV(Tail(vals)))

\* Series.sum(): missing values are skipped
SumOfPresent(vals) == SumV(SelectSeq(vals, LAMBDA v : ~IsNA(v)))

\* Series.mean(): missing values are skipped; NaN when nothing is left
MeanV(vals) ==
    LET present == SelectSeq(vals, LAMBDA v : ~IsNA(v))
    IN  IF present = <<>> THEN NaN ELSE DivV(SumV(present), Num(Len(present)))

\* Series.nunique(): the number of distinct values, missing ones left out
NUnique(vals) == Num(Cardinality({vals[r] : r \in DOMAIN vals} \ {NaN, NaT}))

\* the integers of S in ascending order
RECURSIVE Ascending(_)
Ascending(S) ==
    IF S = {} THEN <<>>
    ELSE LET least == CHOOSE x \in S : \A y \in S : x <= y
         IN  <<least>> \o Ascending(S \ {least})

\* lines 105, 119: df.select_dtypes(include=[np.number]).columns
NumericCols(df) == SelectSeq(df.cols, LAMBDA c : df.dtypes[ColIndex(df, c)] = "number")

\* lines 117-122: what is written for one dataset (the statistics
\* themselves are not modelled, only which columns they cover)
DescribeOutputs(out, name, df) ==
    LET described == Put(out, name \o Suffix_descriptive_stats,
                         [kind |-> "describe", cols |-> df.cols])
    IN  IF Len(NumericCols(df)) > 1
        THEN Put(described, name \o Suffix_correlation_matrix,
                 [kind |-> "corr", cols |-> NumericCols(df)])
        ELSE described

\* (df['likes'] + df['comments']) / df['views'].replace(0, 1)
EngagementRateGuarded(df) ==
    [r \in 1..NRows(df) |->
        DivV(AddV(Column(df, Col_likes)[r], Column(df, Col_comments)[r]),
             Replace(Column(df, Col_views)[r], 0, 1))]

\* line 129: (df['likes'] + df['comments']) / df['views']
EngagementRate(df) ==
    [r \in 1..NRows(df) |->
        DivV(AddV(Column(df, Col_likes)[r], Column(df, Col_comments)[r]),
             Column(df, Col_views)[r])]

\* The engagement_rate step with the zero guard written into the source
\* column: df['views'] = df['views'].replace(0, 1) before the division.
AddEngagementGuarded(df) ==
    IF HasAll(df, {Col_views, Col_likes, Col_comments})
    THEN LET guarded == SetColumn(df, Col_views, "number",
                            [r \in 1..NRows(df) |-> Replace(Column(df, Col_views)[r], 0, 1)])
         IN  [raised |-> FALSE, wrote |-> TRUE,
              df |-> SetColumn(guarded, Col_engagement_rate, "number",
                               EngagementRate(guarded))]
    ELSE [raised |-> FALSE, wrote |-> FALSE, df |-> df]

\* lines 128-137 for one dataset: the frame is changed in place
AddEngagement(df) ==
    IF HasAll(df, {Col_views, Col_likes, Col_comments})
    THEN IF Has(df, Col_views) /\ Has(df, Col_likes) /\ Has(df, Col_comments)
         THEN [raised |-> FALSE, wrote |-> TRUE,
               df |-> SetColumn(df, Col_engagement_rate, "number", EngagementRate(df))]
         ELSE [raised |-> TRUE, wrote |-> FALSE, df |-> df]
    ELSE [raised |-> FALSE, wrote |-> FALSE, df |-> df]

\* the loop without its `break`: the last column whose name holds 'date'
LastDateColumn(df) ==
    IF \E n \in DOMAIN df.cols : IsDateNamed(df.cols[n])
    THEN CHOOSE n \in DOMAIN df.cols :
            /\ IsDateNamed(df.cols[n])
            /\ \A m \in DOMAIN df.cols : IsDateNamed(df.cols[m]) => m <= n
    ELSE 0

\* lines 142-146: the position of the first column whose name holds
\* 'date', 0 for date_col = None
FirstDateColumn(df) ==
    IF \E n \in DOMAIN df.cols : IsDateNamed(df.cols[n])
    THEN CHOOSE n \in DOMAIN df.cols :
            /\ IsDateNamed(df.cols[n])
            /\ \A m \in DOMAIN df.cols : IsDateNamed(df.cols[m]) => n <= m
    ELSE 0

\* line 148: pd.to_datetime(df[date_col], errors='coerce') for one value of
\* a column of the given dtype (numbers count nanoseconds from the epoch)
ToDatetime(v, dtype, zero) ==
    IF dtype = "object" THEN ToDatetimeObject(v, zero)
    ELSE IF v.k = "num" THEN Ts(0, v.a)
    ELSE IF v.k = "ts" THEN v
    ELSE NaT

\* line 148
CoerceDateColumn(df, n, zero) ==
    [df EXCEPT !.dtypes[n] = "datetime",
               !.data = [r \in 1..NRows(df) |->
                            [df.data[r] EXCEPT
                                ![n] = ToDatetime(df.data[r][n], df.dtypes[n], zero)]]]

\* lines 149-150: df.groupby(df[date_col].dt.date)['views'].mean()
\* .reset_index(): one row per date, ascending; NaT rows are in no group
TimeSeries(df, n) ==
    LET days == {df.data[r][n].a : r \in {q \in 1..NRows(df) : df.data[q][n].k = "ts"}}
        order == Ascending(days)
        ViewsOn(day) ==
            LET rows == SelectSeq([r \in 1..NRows(df) |-> r],
                                  LAMBDA r : df.data[r][n].k = "ts" /\ df.data[r][n].a = day)
            IN  [m \in 1..Len(rows) |-> Column(df, Col_views)[rows[m]]]
    IN  MkFrame(<<df.cols[n], Col_average_views>>, <<"object", "number">>,
                [m \in 1..Len(order) |-> m - 1],
                [m \in 1..Len(order) |-> <<DateOf(order[m]), MeanV(ViewsOn(order[m]))>>])

\* lines 142-159 for one dataset
AddTimeSeries(df, zero) ==
    LET date_col == FirstDateColumn(df)
    IN  IF date_col # 0 /\ HasAll(df, {Col_views})
        THEN IF Has(df, Col_views)
             THEN LET coerced == CoerceDateColumn(df, date_col, zero)
                  IN  [raised |-> FALSE, wrote |-> TRUE, df |-> coerced,
                       out |-> TimeSeries(coerced, date_col)]
             ELSE [raised |-> TRUE, wrote |-> FALSE,
                   df |-> CoerceDateColumn(df, date_col, zero), out |-> <<>>]
        ELSE [raised |-> FALSE, wrote |-> FALSE, df |-> df, out |-> <<>>]

\* lines 165-166: df.groupby('category').agg({'views': 'mean', 'likes':
\* 'mean'}).reset_index(): one row per category, in ascending order
\* (categories are texts, ordered here by their identifying number)
CategoryAggregation(df) ==
    LET cat == Column(df, Col_category)
        keys == {cat[r].a : r \in {q \in 1..NRows(df) : ~IsNA(cat[q])}}
        order == Ascending(keys)
        Of(c, key) ==
            LET rows == SelectSeq([r \in 1..NRows(df) |-> r],
                                  LAMBDA r : ~IsNA(cat[r]) /\ cat[r].a = key)
            IN  [m \in 1..Len(rows) |-> Column(df, c)[rows[m]]]
    IN  MkFrame(<<Col_category, Col_average_views, Col_average_likes>>,
                <<"object", "number", "number">>,
                [m \in 1..Len(order) |-> m - 1],
                [m \in 1..Len(order) |->
                    <<Str(order[m]), MeanV(Of(Col_views, order[m])),
                      MeanV(Of(Col_likes, order[m]))>>])

\* lines 164-175 for one dataset
AddCategory(df) ==
    IF HasAll(df, {Col_category, Col_views, Col_likes})
    THEN IF Has(df, Col_category) /\ Has(df, Col_views) /\ Has(df, Col_likes)
         THEN [raised |-> FALSE, wrote |-> TRUE, out |-> CategoryAggregation(df)]
         ELSE [raised |-> TRUE, wrote |-> FALSE, out |-> <<>>]
    ELSE [raised |-> FALSE, wrote |-> FALSE, out |-> <<>>]

\* `c in a.columns or c in b.columns`
EitherHas(a, b, c) == Has(a, c) \/ Has(b, c)

\* line 182: `c in a.columns and c in b.columns`
BothHave(a, b, c) == Has(a, c) /\ Has(b, c)

\* lines 179-199
Comparison(frames) ==
    IF Tab_youtube_data \in DOMAIN frames /\ Tab_tiktok_data \in DOMAIN frames
    THEN LET yt_df == frames[Tab_youtube_data]
             tt_df == frames[Tab_tiktok_data]
         IN  IF BothHave(yt_df, tt_df, Col_engagement_rate)
             THEN IF Has(yt_df, Col_engagement_rate) /\ Has(tt_df, Col_engagement_rate)
                  THEN [raised |-> FALSE, wrote |-> TRUE,
                        out |-> MkFrame(
                            <<Col_Platform, Col_Average_Engagement_Rate>>,
                            <<"object", "number">>, <<0, 1>>,
                            << <<PlatformName(1),
                                 MeanV(Column(yt_df, Col_engagement_rate))>>,
                               <<PlatformName(2),
                                 MeanV(Column(tt_df, Col_engagement_rate))>> >>)]
                  ELSE [raised |-> TRUE, wrote |-> FALSE, out |-> <<>>]
             ELSE [raised |-> FALSE, wrote |-> FALSE, out |-> <<>>]
    ELSE [raised |-> FALSE, wrote |-> FALSE, out |-> <<>>]

\* lines 206-213
Summary(df) ==
    [total_records |-> Num(NRows(df)),
     unique_categories |-> IF Has(df, Col_category)
                           THEN NUnique(Column(df, Col_category)) ELSE NotApplicable,
     unique_creators |-> IF Has(df, Col_creator)
                         THEN NUnique(Column(df, Col_creator)) ELSE NotApplicable,
     average_views |-> IF Has(df, Col_views)
                       THEN MeanV(Column(df, Col_views)) ELSE NotApplicable,
     average_likes |-> IF Has(df, Col_likes)
                       THEN MeanV(Column(df, Col_likes)) ELSE NotApplicable,
     average_comments |-> IF Has(df, Col_comments)
                          THEN MeanV(Column(df, Col_comments)) ELSE NotApplicable]

(***************************************************************************)
(* Inputs of 03_analyze_data.py: the tables of the cleaned database.       *)
(***************************************************************************)
Music == Str(1)
News == Str(2)

\* Schemas small enough to draw two tables at once.
PlatformSchemas ==
    { <<ColSpec(Col_views, "number", {Num(0), Num(100)}),
        ColSpec(Col_likes, "number", {Num(10)}),
        ColSpec(Col_comments, "number", {Num(5)})>>,
      <<ColSpec(Col_views, "number", {Num(0), Num(100)}),
        ColSpec(Col_likes, "number", {Num(10)}),
        ColSpec(Col_comments, "number", {Num(5)}),
        ColSpec(Col_engagement_rate, "number", {Num(7)})>>,
      <<ColSpec(Col_engagement_rate, "number", {Num(1), Num(3)})>>,
      <<ColSpec(Col_views, "number", {Num(0), Num(100)}),
        ColSpec(Col_likes, "number", {Num(10)})>> }

OtherSchemas ==
    { <<ColSpec(Col_published_date, "object",
                {DStr(1, 0), DStr(1, 1), DStr(2, 0), Str(1)}),
        ColSpec(Col_views, "number", {Num(100), Num(200)})>>,
      <<ColSpec(Col_category, "object", {Music, News}),
        ColSpec(Col_views, "number", {Num(100), Num(200)}),
        ColSpec(Col_likes, "number", {Num(10), Num(30)})>>,
      <<ColSpec(Col_category, "object", {Music, News}),
        ColSpec(Col_creator, "object", {Str(3), NaN})>>,
      <<ColSpec(Col_category, "object", {Music, NaN}),
        ColSpec(Col_views, "number", {Num(100)}),
        ColSpec(Col_likes, "number", {Num(10)})>>,
      <<ColSpec(Col_published_date, "object", {DStr(1, 0), Str(1), NaN})>>,
      <<ColSpec(Col_Upload_Date, "number", {Num(0), NaN}),
        ColSpec(Col_published_date, "object", {DStr(2, 0)}),
        ColSpec(Col_views, "number", {Num(100), Num(200)})>> }

PlatformFrames == UNION {FramesOf(schema) : schema \in PlatformSchemas}
AnalysisFrames == PlatformFrames \cup UNION {FramesOf(schema) : schema \in OtherSchemas}

\* lines 60-75: every table of the cleaned database has been loaded.  No
\* object column of these inputs holds the integer 0, so the build's
\* to_datetime choice is not exercised here and is fixed.
InitAnalysis ==
    /\ \/ /\ anames \in {<<Tab_youtube_data>>, <<Tab_sales>>}
          /\ adf \in [Range(anames) -> AnalysisFrames]
       \/ /\ anames = <<Tab_tiktok_data, Tab_youtube_data>>
          /\ adf \in [Range(anames) -> PlatformFrames]
    /\ loaded = adf
    /\ pandas_zero = NaT
    /\ outputs = NoFrames
    /\ j = 1
    /\ apc = "describe"
    /\ IdleIngest
    /\ raw_tables = <<>>
    /\ dataframes = <<>> /\ table_list = <<>> /\ cleaned_dataframes = <<>>
    /\ engineered_dataframes = <<>> /\ processed = <<>> /\ k = 0
    /\ ppc = "idle" /\ twice = <<>> /\ fe_input = <<>>

\* lines 116-122, one iteration
DescribeStep ==
    /\ apc = "describe"
    /\ j <= Len(anames)
    /\ outputs' = DescribeOutputs(outputs, anames[j], adf[anames[j]])
    /\ j' = j + 1
    /\ UNCHANGED <<adf, loaded, anames, apc, ivars, pvars>>

\* lines 123-126
EndDescribe ==
    /\ apc = "describe"
    /\ j > Len(anames)
    /\ apc' = "features"
    /\ j' = 1
    /\ UNCHANGED <<adf, loaded, anames, outputs, ivars, pvars>>

\* lines 127-137, one iteration
EngagementStep ==
    /\ apc = "features"
    /\ j <= Len(anames)
    /\ LET name == anames[j]
           res == AddEngagement(adf[name])
       IN  /\ adf' = Put(adf, name, res.df)
           /\ outputs' = IF res.wrote
                         THEN Put(outputs, name \o Suffix_with_features, res.df)
                         ELSE outputs
           /\ apc' = IF res.raised THEN "raised" ELSE apc
           /\ j' = IF res.raised THEN j ELSE j + 1
    /\ UNCHANGED <<loaded, anames, ivars, pvars>>

\* lines 138-140
EndFeatures ==
    /\ apc = "features"
    /\ j > Len(anames)
    /\ apc' = "timeseries"
    /\ j' = 1
    /\ UNCHANGED <<adf, loaded, anames, outputs, ivars, pvars>>

\* lines 141-159, one iteration
TimeSeriesStep ==
    /\ apc = "timeseries"
    /\ j <= Len(anames)
    /\ LET name == anames[j]
           res == AddTimeSeries(adf[name], pandas_zero)
       IN  /\ adf' = Put(adf, name, res.df)
           /\ outputs' = IF res.wrote
                         THEN Put(outputs, name \o Suffix_time_series_trend, res.out)
                         ELSE outputs
           /\ apc' = IF res.raised THEN "raised" ELSE apc
           /\ j' = IF res.raised THEN j ELSE j + 1
    /\ UNCHANGED <<loaded, anames, ivars, pvars>>

\* lines 160-162
EndTimeSeries ==
    /\ apc = "timeseries"
    /\ j > Len(anames)
    /\ apc' = "category"
    /\ j' = 1
    /\ UNCHANGED <<adf, loaded, anames, outputs, ivars, pvars>>

\* lines 163-175, one iteration
CategoryStep ==
    /\ apc = "category"
    /\ j <= Len(anames)
    /\ LET name == anames[j]
           res == AddCategory(adf[name])
       IN  /\ outputs' = IF res.wrote
                         THEN Put(outputs, name \o Suffix_category_aggregation, res.out)
                         ELSE outputs
           /\ apc' = IF res.raised THEN "raised" ELSE apc
           /\ j' = IF res.raised THEN j ELSE j + 1
    /\ UNCHANGED <<adf, loaded, anames, ivars, pvars>>

\* lines 176-178
EndCategory ==
    /\ apc = "category"
    /\ j > Len(anames)
    /\ apc' = "compare"
    /\ j' = 1
    /\ UNCHANGED <<adf, loaded, anames, outputs, ivars, pvars>>

\* lines 179-204
CompareStep ==
    /\ apc = "compare"
    /\ LET res == Comparison(adf)
       IN  /\ outputs' = IF res.wrote
                         THEN Put(outputs, PlatformComparison, res.out)
                         ELSE outputs
           /\ apc' = IF res.raised THEN "raised" ELSE "summary"
    /\ UNCHANGED <<adf, loaded, anames, j, ivars, pvars>>

\* lines 205-216, one iteration
SummaryStep ==
    /\ apc = "summary"
    /\ j <= Len(anames)
    /\ outputs' = Put(outputs, anames[j] \o Suffix_summary, Summary(adf[anames[j]]))
    /\ j' = j + 1
    /\ UNCHANGED <<adf, loaded, anames, apc, ivars, pvars>>

\* lines 217-219
EndSummary ==
    /\ apc = "summary"
    /\ j > Len(anames)
    /\ apc' = "done"
    /\ UNCHANGED <<adf, loaded, anames, outputs, j, ivars, pvars>>

NextAnalysis ==
    \/ DescribeStep \/ EndDescribe \/ EngagementStep \/ EndFeatures
    \/ TimeSeriesStep \/ EndTimeSeries \/ CategoryStep \/ EndCategory
    \/ CompareStep \/ SummaryStep \/ EndSummary

\* A run of 02_process_data.py or of 03_analyze_data.py over tables drawn
\* from the bounded inputs.
Init == InitProcess \/ InitAnalysis

Next == NextProcess \/ NextAnalysis

Spec == Init /\ [][Next]_vars

(***************************************************************************)
(* Claims about the Feature Engineer and the Aggregator.                   *)
(***************************************************************************)
\* The ratios of feature_engineering: derived column, numerator, denominator.
Ratios ==
    { <<Col_views_per_subscriber, Col_views, Col_subscribers>>,
      <<Col_like_rate, Col_likes, Col_views>>,
      <<Col_likes_per_follower, Col_likes, Col_followers>>,
      <<Col_shares_per_follower, Col_shares, Col_followers>> }

\* numerator / (denominator if denominator != 0 else 1)
GuardedQuotient(num, den) == DivV(num, IF den = Num(0) THEN Num(1) ELSE den)

\* The ratio column q[1] of the engineered table was computed by
\* feature_engineering (it was not there before, and its sources were).
Computed(table, q) ==
    /\ table \in DOMAIN engineered_dataframes
    /\ Has(engineered_dataframes[table], q[1])
    /\ ~Has(fe_input[table], q[1])
    /\ Has(fe_input[table], q[2])
    /\ Has(fe_input[table], q[3])

\* C4: every ratio feature_engineering computes is a finite number equal to
\* numerator / (denominator if denominator != 0 else 1), row by row.
C4_SafeDivision ==
    \A table \in DOMAIN engineered_dataframes : \A q \in Ratios :
        Computed(table, q) =>
            LET before == fe_input[table]
                after == engineered_dataframes[table]
            IN  \A r \in 1..NRows(after) :
                   /\ Column(after, q[1])[r].k = "num"
                   /\ Column(after, q[1])[r] =
                        GuardedQuotient(Column(before, q[2])[r], Column(before, q[3])[r])

\* A ratio was computed over a row whose denominator is 0.
C4_Witness ==
    \E table \in DOMAIN engineered_dataframes : \E q \in Ratios :
        /\ Computed(table, q)
        /\ \E r \in 1..NRows(fe_input[table]) :
              /\ Column(fe_input[table], q[3])[r] = Num(0)
              /\ Column(fe_input[table], q[2])[r] # Num(0)

\* Output families of the analysis a dataset may lack columns for.
WroteFor(name, suffix) == (name \o suffix) \in DOMAIN outputs

HasDateNamed(df) == \E n \in DOMAIN df.cols : IsDateNamed(df.cols[n])

\* C5: feature_engineering and the aggregation families never raise over a
\* missing column; a dataset that lacks a required column gets no derived
\* column / no output of that family, and the run goes on to its end.
C5_SchemaGuard ==
    /\ ppc # "raised"
    /\ apc # "raised"
    /\ \A table \in DOMAIN engineered_dataframes : \A q \in Ratios :
          (~Has(fe_input[table], q[2]) \/ ~Has(fe_input[table], q[3])) =>
              (Has(engineered_dataframes[table], q[1]) <=> Has(fe_input[table], q[1]))
    /\ \A name \in DOMAIN loaded :
          /\ (\E c \in {Col_views, Col_likes, Col_comments} : ~Has(loaded[name], c)) =>
                /\ ~WroteFor(name, Suffix_with_features)
                /\ Has(adf[name], Col_engagement_rate)
                      <=> Has(loaded[name], Col_engagement_rate)
          /\ (~HasDateNamed(loaded[name]) \/ ~Has(loaded[name], Col_views)) =>
                ~WroteFor(name, Suffix_time_series_trend)
          /\ (\E c \in {Col_category, Col_views, Col_likes} : ~Has(loaded[name], c)) =>
                ~WroteFor(name, Suffix_category_aggregation)
    /\ (\E name \in {Tab_youtube_data, Tab_tiktok_data} :
            name \notin DOMAIN adf \/ ~Has(adf[name], Col_engagement_rate)) =>
          PlatformComparison \notin DOMAIN outputs
    /\ ppc = "done" =>
          \A n \in DOMAIN table_list : (table_list[n] \o CleanedCsv) \in DOMAIN processed
    /\ apc = "done" =>
          \A name \in DOMAIN loaded :
             /\ WroteFor(name, Suffix_summary)
             /\ LET summary == outputs[name \o Suffix_summary]
                IN  /\ ~Has(loaded[name], Col_category) =>
                          summary.unique_categories = NotApplicable
                    /\ ~Has(loaded[name], Col_creator) =>
                          summary.unique_creators = NotApplicable
                    /\ ~Has(loaded[name], Col_views) =>
                          summary.average_views = NotApplicable
                    /\ ~Has(loaded[name], Col_likes) =>
                          summary.average_likes = NotApplicable
                    /\ ~Has(loaded[name], Col_comments) =>
                          summary.average_comments = NotApplicable

\* The analysis ended; one dataset got the engagement snapshot and the other,
\* one column short, did not, and both got their summary.
C5_Witness ==
    /\ apc = "done"
    /\ \E a, b \in DOMAIN loaded :
          /\ WroteFor(a, Suffix_with_features)
          /\ ~WroteFor(b, Suffix_with_features)
          /\ Has(loaded[b], Col_views) /\ ~Has(loaded[b], Col_comments)
          /\ WroteFor(b, Suffix_summary)

ColumnSet(df) == Range(df.cols)

YoutubeExpected(df) ==
    (IF Has(df, Col_views) /\ Has(df, Col_subscribers)
     THEN {Col_views_per_subscriber} ELSE {})
    \cup (IF Has(df, Col_likes) /\ Has(df, Col_views) THEN {Col_like_rate} ELSE {})

TiktokExpected(df) ==
    (IF Has(df, Col_likes) /\ Has(df, Col_followers)
     THEN {Col_likes_per_follower} ELSE {})
    \cup (IF Has(df, Col_shares) /\ Has(df, Col_followers)
          THEN {Col_shares_per_follower} ELSE {})

\* Example 1 of the specification: views = [100, 200], subscribers = [0, 50]
IsExample1(table, df) ==
    /\ table = Tab_youtube_data
    /\ df.cols = <<Col_views, Col_subscribers>>
    /\ df.data = << <<Num(100), Num(0)>>, <<Num(200), Num(50)>> >>

Example1Holds(table) ==
    IsExample1(table, fe_input[table]) =>
        Column(engineered_dataframes[table], Col_views_per_subscriber)
            = <<Num(100), Num(4)>>

\* C6 as stated: a name holding "youtube" gets the YouTube ratios, every name
\* holding "tiktok" (also one that holds "youtube" too) gets the TikTok
\* ratios, any other name leaves the dataset as it was.
C6_DispatchAsStated ==
    \A table \in DOMAIN engineered_dataframes :
        LET before == fe_input[table]
            after == engineered_dataframes[table]
        IN  /\ Contains(table, Youtube) => YoutubeExpected(before) \subseteq ColumnSet(after)
            /\ Contains(table, Tiktok) => TiktokExpected(before) \subseteq ColumnSet(after)
            /\ (~Contains(table, Youtube) /\ ~Contains(table, Tiktok)) => after = before
            /\ Example1Holds(table)

\* C6 amended: the TikTok ratios are added for a name that holds "tiktok"
\* and not "youtube"; a name that holds "youtube" gets the YouTube ratios and
\* no others.
C6_DispatchExclusive ==
    \A table \in DOMAIN engineered_dataframes :
        LET before == fe_input[table]
            after == engineered_dataframes[table]
        IN  /\ Contains(table, Youtube) =>
                  ColumnSet(after) = ColumnSet(before) \cup YoutubeExpected(before)
            /\ (Contains(table, Tiktok) /\ ~Contains(table, Youtube)) =>
                  ColumnSet(after) = ColumnSet(before) \cup TiktokExpected(before)
            /\ (~Contains(table, Youtube) /\ ~Contains(table, Tiktok)) => after = before
            /\ Example1Holds(table)

\* A table whose name holds both words, with the TikTok source columns, has
\* been engineered; and so has Example 1.
C6_Witness ==
    /\ Tab_youtube_tiktok \in DOMAIN engineered_dataframes
    /\ TiktokExpected(fe_input[Tab_youtube_tiktok]) # {}

C6_WitnessExample ==
    /\ Tab_youtube_data \in DOMAIN engineered_dataframes
    /\ IsExample1(Tab_youtube_data, fe_input[Tab_youtube_data])

\* Every column of `before` is a column of `after` with the same values.
Preserved(before, after) ==
    \A n \in DOMAIN before.cols :
        /\ Has(after, before.cols[n])
        /\ Column(after, before.cols[n]) = Column(before, before.cols[n])

\* The engagement_rate step has run for the dataset at position n and the
\* time-series step has not touched it yet.
AfterEngagementStep(n) ==
    \/ apc = "features" /\ n < j
    \/ apc = "timeseries" /\ n >= j

\* C7: feature_engineering and the engagement_rate step only add columns:
\* every column the dataset had before is still there with the same values.
C7_ColumnsOnlyAdded ==
    /\ \A table \in DOMAIN engineered_dataframes :
          Preserved(fe_input[table], engineered_dataframes[table])
    /\ \A n \in DOMAIN anames :
          AfterEngagementStep(n) => Preserved(loaded[anames[n]], adf[anames[n]])

\* The comparison step has run.
ComparisonDone == apc \in {"summary", "done"}

BothPlatformsHaveRate ==
    /\ Tab_youtube_data \in DOMAIN adf
    /\ Tab_tiktok_data \in DOMAIN adf
    /\ Has(adf[Tab_youtube_data], Col_engagement_rate)
    /\ Has(adf[Tab_tiktok_data], Col_engagement_rate)

\* C10: the comparison table is written only when youtube_data and
\* tiktok_data are both loaded and both have engagement_rate when the step
\* runs; otherwise nothing is written and nothing is raised.
C10_ComparisonOnlyWithBoth ==
    /\ PlatformComparison \in DOMAIN outputs => BothPlatformsHaveRate
    /\ (apc = "compare" /\ ~BothPlatformsHaveRate) =>
          (~Comparison(adf).raised /\ ~Comparison(adf).wrote)
    /\ (ComparisonDone /\ ~BothPlatformsHaveRate) =>
          PlatformComparison \notin DOMAIN outputs
    /\ apc # "raised"

\* The comparison was written, one of the two rates having been added by the
\* engagement_rate step.
C10_Witness ==
    /\ PlatformComparison \in DOMAIN outputs
    /\ ~Has(loaded[Tab_youtube_data], Col_engagement_rate)

(***************************************************************************)
(* Claims about the Aggregator's families.                                 *)
(***************************************************************************)
\* What the per-dataset families write is what they compute from the
\* dataset as loaded.
PerDatasetFamiliesFromLoaded ==
    \A name \in DOMAIN loaded :
        LET eng == AddEngagement(loaded[name])
            ts == AddTimeSeries(loaded[name], pandas_zero)
            cat == AddCategory(loaded[name])
        IN  /\ WroteFor(name, Suffix_with_features) =>
                  eng.wrote /\ outputs[name \o Suffix_with_features] = eng.df
            /\ WroteFor(name, Suffix_time_series_trend) =>
                  ts.wrote /\ outputs[name \o Suffix_time_series_trend] = ts.out
            /\ WroteFor(name, Suffix_category_aggregation) =>
                  cat.wrote /\ outputs[name \o Suffix_category_aggregation] = cat.out
            /\ WroteFor(name, Suffix_summary) =>
                  outputs[name \o Suffix_summary] = Summary(loaded[name])
            /\ apc = "done" =>
                  /\ eng.wrote => WroteFor(name, Suffix_with_features)
                  /\ ts.wrote => WroteFor(name, Suffix_time_series_trend)
                  /\ cat.wrote => WroteFor(name, Suffix_category_aggregation)
                  /\ WroteFor(name, Suffix_summary)

\* The comparison is what Comparison computes from the given frames.
ComparisonFrom(frames) ==
    /\ PlatformComparison \in DOMAIN outputs =>
          Comparison(frames).wrote /\ outputs[PlatformComparison] = Comparison(frames).out
    /\ (ComparisonDone /\ Comparison(frames).wrote) =>
          PlatformComparison \in DOMAIN outputs

\* C11 as stated: every family's output, the comparison included, depends
\* only on the datasets as loaded, whichever other steps ran or skipped.
C11_FamiliesIndependent ==
    PerDatasetFamiliesFromLoaded /\ ComparisonFrom(loaded)

\* The datasets as the engagement_rate step leaves the loaded ones.
EngagedFrames == [name \in DOMAIN loaded |-> AddEngagement(loaded[name]).df]

\* C11 amended: the per-dataset families depend only on the dataset as
\* loaded; the comparison depends on the datasets as the engagement_rate
\* step left them (engagement_rate loaded or computed by that step).
C11_IndependentButComparison ==
    PerDatasetFamiliesFromLoaded /\ (loaded # <<>> => ComparisonFrom(EngagedFrames))

\* The analysis ended with the comparison written although tiktok_data was
\* loaded without engagement_rate; every other family's output for it is
\* what the loaded dataset gives.
C11_Witness ==
    /\ apc = "done"
    /\ PlatformComparison \in DOMAIN outputs
    /\ Has(loaded[Tab_youtube_data], Col_engagement_rate)
    /\ ~Has(loaded[Tab_tiktok_data], Col_engagement_rate)
    /\ WroteFor(Tab_tiktok_data, Suffix_with_features)
    /\ WroteFor(Tab_tiktok_data, Suffix_summary)

(***************************************************************************)
(* The route from 02_process_data.py to 03_analyze_data.py: the processed  *)
(* CSV files are loaded into the database by Dashboards/app.py, and        *)
(* 03_analyze_data.py reads every table of that database.                  *)
(***************************************************************************)
\* 02_process_data.py line 126, app.py line 117: df.to_csv(index=False)
\* followed by pd.read_csv.  A Timestamp comes back as the text of the
\* date, NaT and NaN as NaN, and an object column's number (the 0 of
\* fillna) as its text unless the whole column is numbers; a column with
\* no text left is a number column; the index is a fresh 0..n-1.
CsvRoundTrip(df) ==
    LET Texts(n) == \E r \in 1..NRows(df) : df.data[r][n].k \in {"str", "dstr", "ts"}
        Cell(v, n) ==
            CASE v.k = "ts" -> DStr(v.a, v.b)
              [] v.k = "nat" -> NaN
              [] v.k = "num" /\ Texts(n) -> Str(0)
              [] OTHER -> v
    IN  MkFrame(df.cols,
                [n \in DOMAIN df.cols |-> IF Texts(n) THEN "object" ELSE "number"],
                [r \in 1..NRows(df) |-> r - 1],
                [r \in 1..NRows(df) |->
                    [n \in DOMAIN df.cols |-> Cell(df.data[r][n], n)]])

\* app.py lines 113-127, then 03_analyze_data.py lines 62-73: every CSV file
\* of data/processed/ becomes the table named by its lowercased stem, and
\* the analysis loads every table under the table's name.
LoadProcessed ==
    /\ ppc = "done"
    /\ apc = "idle"
    /\ LET files == [n \in 1..Len(table_list) |-> table_list[n] \o CleanedCsv]
           csv == SelectSeq(files, LAMBDA f : EndsWith(f, DotCsv))
           tables == [n \in 1..Len(csv) |-> TableName(csv[n])]
           frames == [t \in Range(tables) |->
                        CsvRoundTrip(processed[
                            csv[CHOOSE n \in 1..Len(csv) : tables[n] = t]])]
       IN  /\ anames' = tables
           /\ adf' = frames
           /\ loaded' = frames
    /\ outputs' = NoFrames
    /\ j' = 1
    /\ apc' = "describe"
    /\ UNCHANGED <<ivars, pvars>>

NextPipeline == NextProcess \/ LoadProcessed \/ NextAnalysis

\* 02_process_data.py over the raw tables, its CSV files loaded by app.py,
\* and 03_analyze_data.py over the tables so loaded.
SpecPipeline == InitProcess /\ [][NextPipeline]_vars

\* The names an analysis output for dataset N may have.
OutputNames(N) ==
    {N \o suffix : suffix \in {Suffix_descriptive_stats, Suffix_correlation_matrix,
                               Suffix_with_features, Suffix_time_series_trend,
                               Suffix_category_aggregation, Suffix_summary}}

\* C12: a dataset ingested under name N is keyed N by the cleaning and the
\* feature-engineering stage, reaches the Aggregator under the key N, and
\* each of its analysis outputs is named N followed by the family's suffix.
C12_NamePreserved ==
    /\ DOMAIN cleaned_dataframes \subseteq Range(table_list)
    /\ DOMAIN engineered_dataframes \subseteq Range(table_list)
    /\ apc # "idle" =>
          /\ Range(anames) = Range(table_list)
          /\ DOMAIN outputs \subseteq
                {PlatformComparison} \cup UNION {OutputNames(N) : N \in Range(table_list)}

(***************************************************************************)
(* Claims about the engagement rate.                                       *)
(***************************************************************************)
\* The dataset has the three columns the engagement rate is computed from.
HasEngagementSources(df) ==
    Has(df, Col_views) /\ Has(df, Col_likes) /\ Has(df, Col_comments)

\* The engagement_rate step has run for this dataset.
EngagementStepRanFor(name) ==
    \E n \in DOMAIN anames :
        anames[n] = name /\ (apc = "features" => n < j) /\ apc # "describe"

\* Row r of the snapshot holds (likes + comments) / views of the loaded row:
\* the quotient when views is not 0, inf or NaN (never a number) when it is.
UnguardedRate(before, snapshot, r) ==
    LET likes == Column(before, Col_likes)[r]
        comments == Column(before, Col_comments)[r]
        views == Column(before, Col_views)[r]
        rate == Column(snapshot, Col_engagement_rate)[r]
    IN  IF views.a = 0
        THEN rate = (IF likes.a + comments.a = 0 THEN NaN ELSE Inf)
        ELSE rate = Frac((likes.a * comments.b + comments.a * likes.b) * views.b,
                         likes.b * comments.b * views.a)

\* C13: the Aggregator computes engagement_rate exactly for the datasets
\* that have views, likes and comments, as (likes + comments) / views with
\* no zero guard: a row with views = 0 gets inf or NaN, no error and no
\* substituted denominator; every ratio of feature_engineering is finite.
C13_EngagementUnguarded ==
    /\ apc # "raised"
    /\ \A name \in DOMAIN loaded :
          /\ WroteFor(name, Suffix_with_features) => HasEngagementSources(loaded[name])
          /\ (EngagementStepRanFor(name) /\ HasEngagementSources(loaded[name])) =>
                /\ WroteFor(name, Suffix_with_features)
                /\ LET snapshot == outputs[name \o Suffix_with_features]
                   IN  /\ Has(snapshot, Col_engagement_rate)
                       /\ NRows(snapshot) = NRows(loaded[name])
                       /\ \A r \in 1..NRows(snapshot) :
                              UnguardedRate(loaded[name], snapshot, r)
          /\ (EngagementStepRanFor(name) /\ ~HasEngagementSources(loaded[name])) =>
                (Has(adf[name], Col_engagement_rate)
                    <=> Has(loaded[name], Col_engagement_rate))
    /\ \A table \in DOMAIN engineered_dataframes : \A q \in Ratios :
          Computed(table, q) =>
              \A r \in 1..NRows(engineered_dataframes[table]) :
                  Column(engineered_dataframes[table], q[1])[r].k = "num"

\* Example 2 of the specification went through the engagement_rate step:
\* likes = 10, comments = 5, views = 0 gave inf.
C13_Witness ==
    \E name \in DOMAIN loaded :
        /\ WroteFor(name, Suffix_with_features)
        /\ \E r \in 1..NRows(loaded[name]) :
              /\ Column(loaded[name], Col_likes)[r] = Num(10)
              /\ Column(loaded[name], Col_comments)[r] = Num(5)
              /\ Column(loaded[name], Col_views)[r] = Num(0)
              /\ Column(outputs[name \o Suffix_with_features], Col_engagement_rate)[r] = Inf

(***************************************************************************)
(* Claims about the date coercion of the Cleaner.                          *)
(***************************************************************************)
\* The dates the values of raw column c parse to: a date text gives its
\* date, a number other than a missing value counts from the epoch.
ParsedDates(raw, c) ==
    {Ts(v.a, v.b) : v \in {x \in Range(Column(raw, c)) : x.k = "dstr"}}
    \cup {Ts(0, v.a) : v \in {x \in Range(Column(raw, c)) : x.k = "num"}}

\* C14: after cleaning, every column whose name holds "date", whatever its
\* stored type, is of the date type; each of its values is a date parsed
\* from the raw value or the no-value marker, a missing raw value included:
\* never zero, never a date made from zero; and nothing is raised.
C14_DatesCoercedOrNoValue ==
    /\ ppc # "raised"
    /\ \A table \in DOMAIN cleaned_dataframes :
          LET c == cleaned_dataframes[table]
          IN  \A n \in DOMAIN c.cols :
                 IsDateNamed(c.cols[n]) =>
                    /\ c.dtypes[n] = "datetime"
                    /\ \A r \in 1..NRows(c) :
                          \/ c.data[r][n] = NaT
                          \/ c.data[r][n] \in ParsedDates(dataframes[table], c.cols[n])

(***************************************************************************)
(* Claims about the time-series trend.                                     *)
(***************************************************************************)
\* The time-series step has run for this dataset.
TimeSeriesStepRanFor(name) ==
    \E n \in DOMAIN anames :
        /\ anames[n] = name
        /\ apc \notin {"describe", "features", "raised"}
        /\ apc = "timeseries" => n < j

\* Column n of df is the first, in column order, whose name holds "date".
IsFirstDateNamed(df, n) ==
    /\ n \in DOMAIN df.cols
    /\ IsDateNamed(df.cols[n])
    /\ \A m \in 1..(n - 1) : ~IsDateNamed(df.cols[m])

\* The date the value of row r, column n parses to (NaT when it does not).
ParsedAt(df, n, r) == ToDatetime(df.data[r][n], df.dtypes[n], pandas_zero)

\* The rows of df whose date, in column n, is the calendar date `day`.
RowsOn(df, n, day) ==
    {r \in 1..NRows(df) : ParsedAt(df, n, r).k = "ts" /\ ParsedAt(df, n, r).a = day}

\* The mean of column c over a non-empty set of rows.
RECURSIVE SumOver(_, _, _)
SumOver(df, c, rows) ==
    IF rows = {} THEN Num(0)
    ELSE LET r == CHOOSE x \in rows : TRUE
         IN  AddV(Column(df, c)[r], SumOver(df, c, rows \ {r}))

MeanOver(df, c, rows) == DivV(SumOver(df, c, rows), Num(Cardinality(rows)))

\* `out` is the daily trend of df by its date column n.
IsDailyTrend(out, df, n) ==
    /\ out.cols = <<df.cols[n], Col_average_views>>
    /\ \A r \in 1..NRows(df) :
          ParsedAt(df, n, r).k = "ts" =>
              \E m \in 1..NRows(out) : out.data[m][1] = DateOf(ParsedAt(df, n, r).a)
    /\ \A m \in 1..NRows(out) :
          /\ out.data[m][1].k = "date"
          /\ RowsOn(df, n, out.data[m][1].a) # {}
          /\ out.data[m][2] = MeanOver(df, Col_views, RowsOn(df, n, out.data[m][1].a))
    /\ \A m1, m2 \in 1..NRows(out) :
          m1 < m2 => out.data[m1][1].a < out.data[m2][1].a

\* C15: the time-series step uses the first date-named column; with that
\* column and views present the output has one row per calendar date among
\* the rows whose date parses, the mean of views over exactly the rows of
\* that date, no row for NaT, in strictly ascending date order; otherwise
\* no time-series output is written for the dataset.
C15_TimeSeriesTrend ==
    \A name \in DOMAIN loaded :
        LET df == loaded[name]
            applicable == HasDateNamed(df) /\ Has(df, Col_views)
        IN  /\ WroteFor(name, Suffix_time_series_trend) =>
                  /\ applicable
                  /\ \E n \in DOMAIN df.cols :
                        /\ IsFirstDateNamed(df, n)
                        /\ IsDailyTrend(outputs[name \o Suffix_time_series_trend], df, n)
            /\ (TimeSeriesStepRanFor(name) /\ applicable) =>
                  WroteFor(name, Suffix_time_series_trend)

\* A trend was written for a dataset whose two rows hold two times of one
\* day: one output row, the mean of both.
C15_Witness ==
    \E name \in DOMAIN loaded :
        /\ WroteFor(name, Suffix_time_series_trend)
        /\ NRows(loaded[name]) = 2
        /\ loaded[name].data[1][1] = DStr(1, 0)
        /\ loaded[name].data[2][1] = DStr(1, 1)
        /\ loaded[name].data[1][2] # loaded[name].data[2][2]
        /\ NRows(outputs[name \o Suffix_time_series_trend]) = 1
        /\ outputs[name \o Suffix_time_series_trend].data[1][2] = Num(150)

(***************************************************************************)
(* Claims about the category aggregation.                                  *)
(***************************************************************************)
\* The category step has run for this dataset.
CategoryStepRanFor(name) ==
    \E n \in DOMAIN anames :
        /\ anames[n] = name
        /\ apc \in {"category", "compare", "summary", "done"}
        /\ apc = "category" => n < j

\* The rows of df whose category is `value`.
RowsOfCategory(df, value) ==
    {r \in 1..NRows(df) : Column(df, Col_category)[r] = value}

\* `out` is the aggregation of df by category.
IsCategoryAggregation(out, df) ==
    /\ out.cols = <<Col_category, Col_average_views, Col_average_likes>>
    /\ \A r \in 1..NRows(df) :
          ~IsNA(Column(df, Col_category)[r]) =>
              \E m \in 1..NRows(out) : out.data[m][1] = Column(df, Col_category)[r]
    /\ \A m \in 1..NRows(out) :
          LET rows == RowsOfCategory(df, out.data[m][1])
          IN  /\ ~IsNA(out.data[m][1])
              /\ rows # {}
              /\ out.data[m][2] = MeanOver(df, Col_views, rows)
              /\ out.data[m][3] = MeanOver(df, Col_likes, rows)
    /\ \A m1, m2 \in 1..NRows(out) :
          m1 # m2 => out.data[m1][1] # out.data[m2][1]

\* C16: a dataset with category, views and likes gets an aggregation with
\* exactly one row per category value (a missing category is no value),
\* holding the means of views and of likes over exactly the rows of that
\* category; a dataset lacking one of the three columns gets no category
\* aggregation.
C16_CategoryAggregation ==
    \A name \in DOMAIN loaded :
        LET df == loaded[name]
            applicable == Has(df, Col_category) /\ Has(df, Col_views) /\ Has(df, Col_likes)
        IN  /\ WroteFor(name, Suffix_category_aggregation) =>
                  /\ applicable
                  /\ IsCategoryAggregation(
                         outputs[name \o Suffix_category_aggregation], df)
            /\ (CategoryStepRanFor(name) /\ applicable) =>
                  WroteFor(name, Suffix_category_aggregation)

\* Example 3 of the specification was aggregated: two music rows with views
\* 100, 200 and likes 10, 30 gave the one row music, 150, 20.
C16_Witness ==
    \E name \in DOMAIN loaded :
        /\ WroteFor(name, Suffix_category_aggregation)
        /\ loaded[name].data = << <<Music, Num(100), Num(10)>>,
                                  <<Music, Num(200), Num(30)>> >>
        /\ outputs[name \o Suffix_category_aggregation].data
              = << <<Music, Num(150), Num(20)>> >>

(***************************************************************************)
(* Claims about the order of the stages.                                   *)
(***************************************************************************)
AllTables == Range(table_list)

\* Some output of the family with this suffix has been written.
FamilyStarted(suffix) == \E name \in Range(anames) : WroteFor(name, suffix)

\* The family with this suffix has written for every dataset satisfying
\* `Applies`.
FamilyFinished(suffix, Applies(_)) ==
    \A name \in Range(anames) : Applies(loaded[name]) => WroteFor(name, suffix)

Always(df) == TRUE
TrendApplies(df) == HasDateNamed(df) /\ Has(df, Col_views)
CategoryApplies(df) == Has(df, Col_category) /\ Has(df, Col_views) /\ Has(df, Col_likes)

\* C17: the stages run to completion one after the other.  Processing: no
\* table is cleaned before every table is read, none is feature-engineered
\* before every table is cleaned, no output is written before every table
\* is feature-engineered.  Analysis: a family's step has finished over all
\* datasets before the next family's step starts.
C17_StagesInOrder ==
    /\ DOMAIN cleaned_dataframes # {} => DOMAIN dataframes = AllTables
    /\ DOMAIN fe_input # {} => DOMAIN cleaned_dataframes = AllTables
    /\ DOMAIN processed # {} => DOMAIN engineered_dataframes = AllTables
    /\ ppc \in {"clean", "engineer", "save", "done"} => DOMAIN dataframes = AllTables
    /\ ppc \in {"engineer", "save", "done"} => DOMAIN cleaned_dataframes = AllTables
    /\ ppc \in {"save", "done"} => DOMAIN engineered_dataframes = AllTables
    /\ ppc = "done" =>
          \A table \in AllTables : (table \o CleanedCsv) \in DOMAIN processed
    /\ FamilyStarted(Suffix_with_features) =>
          FamilyFinished(Suffix_descriptive_stats, Always)
    /\ FamilyStarted(Suffix_time_series_trend) =>
          FamilyFinished(Suffix_with_features, HasEngagementSources)
    /\ FamilyStarted(Suffix_category_aggregation) =>
          FamilyFinished(Suffix_time_series_trend, TrendApplies)
    /\ PlatformComparison \in DOMAIN outputs =>
          FamilyFinished(Suffix_category_aggregation, CategoryApplies)
    /\ FamilyStarted(Suffix_summary) =>
          /\ FamilyFinished(Suffix_category_aggregation, CategoryApplies)
          /\ BothPlatformsHaveRate => PlatformComparison \in DOMAIN outputs
    /\ apc = "done" => FamilyFinished(Suffix_summary, Always)

\* Two tables: the first processed file has been written, the second not
\* yet, and both tables had been read, cleaned and feature-engineered.
C17_Witness ==
    /\ Len(table_list) = 2
    /\ ppc = "save"
    /\ DOMAIN processed = {table_list[1] \o CleanedCsv}
    /\ DOMAIN engineered_dataframes = AllTables
    /\ DOMAIN dataframes = AllTables

(***************************************************************************)
(* Claims about what a stage does to the output of the stage before it.    *)
(***************************************************************************)
\* C18: no stage changes the output of the stage before it: the frames read
\* from the database stay as read, and the dataset the cleaning loop stored
\* in cleaned_dataframes is the same, columns and values, after
\* feature_engineering has run on it.
C18_StagesDoNotMutate ==
    /\ \A table \in DOMAIN dataframes : dataframes[table] = raw_tables[table]
    /\ \A table \in DOMAIN fe_input : cleaned_dataframes[table] = fe_input[table]

\* C18 amended: the frames read from the database stay as read and a table
\* not yet feature-engineered stays as cleaned; feature_engineering changes
\* the frame it is given and returns it, so afterwards cleaned_dataframes
\* holds the very dataset engineered_dataframes holds, with every column it
\* had that no derived column replaced.
C18_RawKeptCleanedShared ==
    /\ \A table \in DOMAIN dataframes : dataframes[table] = raw_tables[table]
    /\ \A table \in DOMAIN cleaned_dataframes \ DOMAIN fe_input :
          cleaned_dataframes[table] = Clean(dataframes[table], pandas_zero)
    /\ \A table \in DOMAIN engineered_dataframes :
          /\ cleaned_dataframes[table] = engineered_dataframes[table]
          /\ \A n \in DOMAIN fe_input[table].cols :
                LET c == fe_input[table].cols[n]
                IN  /\ Has(cleaned_dataframes[table], c)
                    /\ (\A q \in Ratios : q[1] # c) =>
                          Column(cleaned_dataframes[table], c) = Column(fe_input[table], c)

\* feature_engineering added a derived column to a table, and
\* cleaned_dataframes shows it.
C18_Witness ==
    \E table \in DOMAIN engineered_dataframes :
        /\ ~Has(fe_input[table], Col_views_per_subscriber)
        /\ Has(cleaned_dataframes[table], Col_views_per_subscriber)
        /\ NRows(cleaned_dataframes[table]) > 0

====
